---- MODULE Spec2Model ----
(***************************************************************************)
(* A model of OpenCut's media ingestion code:                              *)
(*   - the media store (apps/web/src/stores/media-store.ts),               *)
(*   - the lazy FFmpeg loader (apps/web/src/lib/waitlist.ts, l. 78-99),    *)
(*   - the ingestion pipeline (apps/web/src/lib/media-processing.ts),      *)
(* and of the waitlist: the cached count (apps/web/src/lib/waitlist.ts,    *)
(* l. 1-50), the rate limiter (l. 52-76) and the signup handler            *)
(* (apps/web/src/app/api/waitlist/route.ts, l. 18-73); and of the rate      *)
(* helpers debounce and throttle (unnamed/part_000, l. 11-52).             *)
(* JavaScript runs one synchronous segment at a time, so every action is   *)
(* the code between two suspension points (an await, a timer, a callback). *)
(***************************************************************************)
EXTENDS Integers, Sequences, FiniteSets, Bags, TLC

VARIABLES
  \* ---- media store ----
  mediaItems,   \* the store's in-memory collection (a sequence of items)
  isLoading,    \* the store's isLoading flag
  revoked,      \* bag of the urls passed to URL.revokeObjectURL
  storage,      \* backing store: project -> set of persisted items
  pending,      \* store operations suspended at their await
  nextOp,       \* number of the next store operation
  nextId,       \* the id generateUUID() returns next
  nextHandle,   \* the number URL.createObjectURL uses next
  dropped,      \* urls of items dropped from the collection by settled operations
  failedAdds,   \* ids whose addMediaItem was rejected
  earlyDeleted, \* ids deleted by a removeMediaItem that started during their save
  latestLoad,   \* of the loadProjectMedia calls in flight together, the one
                \* started last: number, project, outcome (reset when all settled)
  last,         \* the step just taken (operation, phase, arguments, outcome)
  \* ---- lazy FFmpeg loader ----
  ffmpegPromise,  \* the memoized promise: 0 (null) or the number of a promise
  promiseState,   \* promiseState[i]: state of the promise the i-th import() returned
  startedBy,      \* startedBy[i]: who made the call that started the i-th import()
  scheduled,      \* preload callbacks scheduled and not yet run, per scheduler
  preloads,       \* number of preloadFFmpeg() calls made
  hasIdleCallback,\* 'requestIdleCallback' in window
  callers,        \* the loadFFmpeg() calls of other code: promise received, outcome
  awaited,        \* promises that have a handler attached
  unhandled,      \* promises reported as unhandled rejections
  \* ---- ingestion pipeline: one call of processMediaFiles ----
  files,          \* fileArray: the batch, a sequence of [name, type]
  onProgress,     \* "none": no callback was passed; "given": one was
  idx,            \* position of the for loop in fileArray
  pc,             \* where processMediaFiles is suspended
  cur,            \* the locals of the current file: url, thumbnailUrl, duration, ...
  ffmpegUtils,    \* the local ffmpegUtils: FALSE (null) or TRUE (the loaded module)
  processedItems, \* the list the call returns
  completed,      \* the local counter completed
  progress,       \* the values passed to onProgress
  toasts,         \* the toast.error diagnostics issued: <<kind, file name>>
  yields,         \* yields[i]: how often file i's work ended with the setTimeout(0) yield
  created,        \* the urls URL.createObjectURL returned during the call
  \* ---- waitlist ----
  waitlistCountCache, \* the module variable: absent (null) or {count, timestamp}
  now,                \* Date.now(), in milliseconds since the server started
  waitlistTable,      \* the emails in the waitlist table
  countCalls,         \* the getWaitlistCount() calls made: state, answer, result
  invalidated,        \* the cache was invalidated and no retrieval has started since
  redis,              \* "client" or "null" (UPSTASH_REDIS_REST_URL / _TOKEN missing)
  posts,              \* the POST requests received: body, position, response
  \* ---- debounce, throttle ----
  time,           \* the host's clock, in milliseconds
  timers,         \* the host's pending setTimeout timers: id, due time, callback
  wait,           \* debounce's parameter wait
  timeout,        \* debounce's variable timeout: 0 (null) or the id of a timer
  debounceLog,    \* calls of the debounced function and invocations of func
  limit,          \* throttle's parameter limit
  inThrottle,     \* throttle's variable inThrottle
  throttleLog     \* calls of the throttled function and invocations of func

storeVars == <<mediaItems, isLoading, revoked, storage, pending, nextOp,
               nextId, nextHandle, dropped, failedAdds, earlyDeleted,
               latestLoad, last>>

loaderVars == <<ffmpegPromise, promiseState, startedBy, scheduled, preloads,
                hasIdleCallback, callers, awaited, unhandled>>

pipeVars == <<files, onProgress, idx, pc, cur, ffmpegUtils, processedItems,
              completed, progress, toasts, yields, created>>

waitlistVars == <<waitlistCountCache, now, waitlistTable, countCalls,
                  invalidated, redis, posts>>

rateVars == <<time, timers, wait, timeout, debounceLog, limit, inThrottle, throttleLog>>

vars == <<storeVars, loaderVars, pipeVars, waitlistVars, rateVars>>

\* What an operation of the store, of the loader, of the waitlist, of the rate
\* helpers does not touch.
notStoreVars == <<loaderVars, pipeVars, waitlistVars, rateVars>>

notLoaderVars == <<storeVars, pipeVars, waitlistVars, rateVars>>

notWaitlistVars == <<storeVars, loaderVars, pipeVars, rateVars>>

notRateVars == <<storeVars, loaderVars, pipeVars, waitlistVars>>

\* What a step of processMediaFiles never touches.
notPipeVars == <<mediaItems, isLoading, storage, pending, nextOp, nextId, dropped,
                 failedAdds, earlyDeleted, latestLoad, last, scheduled, preloads, hasIdleCallback, callers,
                 unhandled, files, onProgress, waitlistVars, rateVars>>

-----------------------------------------------------------------------------
(* Bounds *)

\* Store operations started in one behaviour.
MaxOps == 3

\* Items added with addMediaItem in one behaviour.
MaxAdds == 2

\* loadFFmpeg() calls made by other code in one behaviour.
MaxCalls == 3

\* preloadFFmpeg() calls in one behaviour.
MaxPreloads == 2

\* Files in the batch given to processMediaFiles.
MaxFiles == 3

\* Files in a large batch given to processMediaFiles.
ManyFiles == 201

\* getWaitlistCount() calls in one behaviour.
MaxCountCalls == 3

\* POST requests to /api/waitlist in one behaviour.
MaxPosts == 1

\* Advances of the clock in one behaviour.
MaxTicks == 2

\* The largest wait of a debounce and the largest limit of a throttle, in ms.
MaxDelay == 3

\* The last millisecond of the host's clock.
MaxTime == 6

\* Calls of a debounced or throttled function in one behaviour.
MaxRateCalls == 4

-----------------------------------------------------------------------------
(* Urls.  A url is <<scheme, n>>; an absent (undefined) url is <<>>. *)

NoUrl == <<>>

BlobUrl(n) == <<"blob:", n>>

DataUrl == <<"data:", 0>>

\* A test of presence alone: every url is taken for a revocable one.
IsPresent(u) == u # NoUrl

\* u && u.startsWith('blob:')
IsBlob(u) == u # NoUrl /\ u[1] = "blob:"

Projects == {"A", "B"}

\* The thumbnail forms a draft item can carry: none (image, audio), a
\* self-contained data: url (canvas fallback), a revocable blob: url.
ThumbKinds == {"none", "data", "blob"}

-----------------------------------------------------------------------------
(* Helpers of the store *)

Ids(items) == {items[i].id : i \in 1..Len(items)}

\* The urls (present ones) the items of a sequence hold.
UrlsOf(items) ==
  ({items[i].url : i \in 1..Len(items)} \cup
   {items[i].thumbnailUrl : i \in 1..Len(items)}) \ {NoUrl}

\* URL.revokeObjectURL(u)
Revoke(bag, u) == bag (+) SetToBag({u})

\* A cleanup that forgets the thumbnail.
RevokeItemUrlOnly(bag, item) ==
  IF IsBlob(item.url) THEN Revoke(bag, item.url) ELSE bag

\* The two guarded revocations every cleanup path performs for one item.
RevokeItem(bag, item) ==
  LET b1 == IF IsBlob(item.url) THEN Revoke(bag, item.url) ELSE bag
  IN IF IsBlob(item.thumbnailUrl) THEN Revoke(b1, item.thumbnailUrl) ELSE b1

\* state.mediaItems.forEach(item => ...revoke...)
RECURSIVE RevokeAll(_, _)
RevokeAll(bag, items) ==
  IF items = <<>> THEN bag
  ELSE RevokeAll(RevokeItem(bag, Head(items)), Tail(items))

\* state.mediaItems.filter(media => media.id !== id)
FilterOut(items, id) == SelectSeq(items, LAMBDA m : m.id # id)

\* state.mediaItems.find(media => media.id === id): the matching items, first one first
Find(items, id) == SelectSeq(items, LAMBDA m : m.id = id)

\* [...state.mediaItems, newItem]
AppendItem(items, newItem) == Append(items, newItem)

NewItem(id, h, thumb) ==
  [id |-> id,
   url |-> BlobUrl(h),
   thumbnailUrl |-> CASE thumb = "none" -> NoUrl
                      [] thumb = "data" -> DataUrl
                      [] OTHER -> BlobUrl(h + 1)]

-----------------------------------------------------------------------------
(* The backing store (storageService): persisted items per project.  A     *)
(* fetch returns the project's items, one per id, in id order, each with   *)
(* live urls of its own.                                                   *)

RECURSIVE FetchResult(_, _)
FetchResult(stored, h) ==
  IF stored = {} THEN <<>>
  ELSE LET m == CHOOSE x \in stored : \A y \in stored : x.id <= y.id
           it == [id |-> m.id,
                  url |-> BlobUrl(h),
                  thumbnailUrl |-> IF IsBlob(m.thumbnailUrl) THEN BlobUrl(h + 1)
                                   ELSE m.thumbnailUrl]
       IN <<it>> \o FetchResult(stored \ {m}, h + 2)

SaveItem(st, p, item) ==
  [st EXCEPT ![p] = {x \in @ : x.id # item.id} \cup {item}]

DeleteItem(st, p, id) == [st EXCEPT ![p] = {x \in @ : x.id # id}]

DeleteProject(st, p) == [st EXCEPT ![p] = {}]

-----------------------------------------------------------------------------
(* Initial state: create<MediaStore>(...) *)

\* The record of a step: the operation, its phase ("start": the code up to the
\* await, "settle": the code after it), the operation's number, its id and
\* project arguments, the urls it found in the collection when it started, the
\* backing store's answer ("ok", "fail") and what the caller gets.
NoStep == [op |-> "none", phase |-> "none", n |-> 0, id |-> 0, project |-> "none",
           held |-> {}, io |-> "none", result |-> "none"]

Step(op, phase, n, id, p, held, io, result) ==
  [op |-> op, phase |-> phase, n |-> n, id |-> id, project |-> p,
   held |-> held, io |-> io, result |-> result]

NoLoad == [n |-> 0, project |-> "none", io |-> "none"]

\* The record of the load started last, after call o of the group has settled
\* with outcome io; the record is reset when no call of the group is in flight.
LoadSettled(latest, o, io, inFlight) ==
  IF \A q \in inFlight : q.kind # "load" THEN NoLoad
  ELSE IF o.n = latest.n THEN [latest EXCEPT !.io = io]
  ELSE latest

InitStore ==
  /\ mediaItems = <<>>
  /\ isLoading = FALSE
  /\ revoked = EmptyBag
  /\ storage = [p \in Projects |-> {}]
  /\ pending = {}
  /\ nextOp = 1
  /\ nextId = 1
  /\ nextHandle = 1
  /\ dropped = {}
  /\ failedAdds = {}
  /\ earlyDeleted = {}
  /\ latestLoad = NoLoad
  /\ last = NoStep

\* An operation suspended at its await; held: the urls of the items it found
\* in the collection when it started; early: it is a removeMediaItem of an
\* item whose addMediaItem, for the same project, is still awaiting its save.
PendingOp(kind, p, id, item, held) ==
  [n |-> nextOp, kind |-> kind, project |-> p, id |-> id, item |-> item, held |-> held,
   early |-> /\ kind = "remove"
             /\ \E a \in pending : a.kind = "add" /\ a.id = id /\ a.project = p]

NoItem == [id |-> 0, url |-> NoUrl, thumbnailUrl |-> NoUrl]

-----------------------------------------------------------------------------
(* addMediaItem *)

\* A rollback that never happens.
AddRollbackMissing(items, id) == items

\* The collection after the rollback of a failed save.
AddRollback(items, id) == FilterOut(items, id)

\* throw error: what the caller of addMediaItem gets when the save failed.
AddResultOnFailure == "rejected"

AddMediaItemStart(p, thumb) ==
  /\ nextOp <= MaxOps
  /\ nextId <= MaxAdds
  /\ LET newItem == NewItem(nextId, nextHandle, thumb)
     IN /\ mediaItems' = AppendItem(mediaItems, newItem)
        /\ pending' = pending \cup {PendingOp("add", p, nextId, newItem, {})}
        /\ last' = Step("add", "start", nextOp, nextId, p, {}, "none", "pending")
  /\ nextOp' = nextOp + 1
  /\ nextId' = nextId + 1
  /\ nextHandle' = nextHandle + 2
  /\ UNCHANGED <<isLoading, revoked, storage, dropped, failedAdds>>
  /\ UNCHANGED <<earlyDeleted, latestLoad>>
  /\ UNCHANGED notStoreVars

AddMediaItemSaved(o) ==
  /\ o.kind = "add"
  /\ storage' = SaveItem(storage, o.project, o.item)
  /\ pending' = pending \ {o}
  /\ last' = Step("add", "settle", o.n, o.id, o.project, {}, "ok", "fulfilled")
  /\ UNCHANGED <<mediaItems, isLoading, revoked, nextOp, nextId, nextHandle,
                 dropped, failedAdds>>
  /\ UNCHANGED <<earlyDeleted, latestLoad>>
  /\ UNCHANGED notStoreVars

AddMediaItemSaveFailed(o) ==
  /\ o.kind = "add"
  /\ mediaItems' = AddRollback(mediaItems, o.id)
  /\ dropped' = dropped \cup (UrlsOf(mediaItems) \ UrlsOf(mediaItems'))
  /\ failedAdds' = failedAdds \cup {o.id}
  /\ pending' = pending \ {o}
  /\ last' = Step("add", "settle", o.n, o.id, o.project, {}, "fail", AddResultOnFailure)
  /\ UNCHANGED <<isLoading, revoked, storage, nextOp, nextId, nextHandle>>
  /\ UNCHANGED <<earlyDeleted, latestLoad>>
  /\ UNCHANGED notStoreVars

-----------------------------------------------------------------------------
(* removeMediaItem *)

\* A removeMediaItem that forgets the thumbnail.
RemoveRevokeUrlOnly(bag, found) ==
  IF found # <<>> /\ IsBlob(Head(found).url) THEN Revoke(bag, Head(found).url) ELSE bag

\* The release calls of removeMediaItem for the item it found (if any).
RemoveRevoke(bag, found) ==
  IF found # <<>> THEN RevokeItem(bag, Head(found)) ELSE bag

RemoveMediaItemStart(p, id) ==
  /\ nextOp <= MaxOps
  /\ LET found == Find(mediaItems, id)
     IN /\ revoked' = RemoveRevoke(revoked, found)
        /\ mediaItems' = FilterOut(mediaItems, id)
        /\ pending' = pending \cup {PendingOp("remove", p, id, NoItem, UrlsOf(found))}
        /\ last' = Step("remove", "start", nextOp, id, p, UrlsOf(found), "none", "pending")
  /\ nextOp' = nextOp + 1
  /\ UNCHANGED <<isLoading, storage, nextId, nextHandle, dropped, failedAdds>>
  /\ UNCHANGED <<earlyDeleted, latestLoad>>
  /\ UNCHANGED notStoreVars

\* A catch block that rethrows.
RemoveResultRethrow(ok) == IF ok THEN "fulfilled" ELSE "rejected"

\* What the caller of removeMediaItem gets: the catch block only logs.
RemoveResult(ok) == "fulfilled"

RemoveMediaItemSettle(o, ok) ==
  /\ o.kind = "remove"
  /\ storage' = IF ok THEN DeleteItem(storage, o.project, o.id) ELSE storage
  /\ dropped' = dropped \cup o.held
  /\ pending' = pending \ {o}
  /\ last' = Step("remove", "settle", o.n, o.id, o.project, o.held,
                  IF ok THEN "ok" ELSE "fail", RemoveResult(ok))
  /\ earlyDeleted' = IF ok /\ o.early THEN earlyDeleted \cup {o.id} ELSE earlyDeleted
  /\ UNCHANGED latestLoad
  /\ UNCHANGED <<mediaItems, isLoading, revoked, nextOp, nextId, nextHandle, failedAdds>>
  /\ UNCHANGED notStoreVars

-----------------------------------------------------------------------------
(* loadProjectMedia, cleanupObjectUrls *)

\* A cleanup that releases nothing.
CleanupSkipped(bag, items) == bag

CleanupObjectUrls(bag, items) == RevokeAll(bag, items)

\* A load that merges what it fetched into the collection.
LoadMerge(current, fetched) == current \o fetched

\* set({ mediaItems, isLoading: false }): the collection is replaced.
LoadInstall(current, fetched) == fetched

\* set({ mediaItems: [], isLoading: false })
LoadOnFetchFailed(current) == <<>>

LoadProjectMediaStart(p) ==
  /\ nextOp <= MaxOps
  /\ isLoading' = TRUE
  /\ revoked' = CleanupObjectUrls(revoked, mediaItems)
  /\ pending' = pending \cup {PendingOp("load", p, 0, NoItem, UrlsOf(mediaItems))}
  /\ last' = Step("load", "start", nextOp, 0, p, UrlsOf(mediaItems), "none", "pending")
  /\ latestLoad' = [n |-> nextOp, project |-> p, io |-> "pending"]
  /\ nextOp' = nextOp + 1
  /\ UNCHANGED <<mediaItems, storage, nextId, nextHandle, dropped, failedAdds>>
  /\ UNCHANGED earlyDeleted
  /\ UNCHANGED notStoreVars

LoadProjectMediaFetched(o) ==
  /\ o.kind = "load"
  /\ LET fetched == FetchResult(storage[o.project], nextHandle)
     IN /\ mediaItems' = LoadInstall(mediaItems, fetched)
        /\ nextHandle' = nextHandle + 2 * Len(fetched)
  /\ dropped' = dropped \cup (UrlsOf(mediaItems) \ UrlsOf(mediaItems'))
  /\ isLoading' = FALSE
  /\ pending' = pending \ {o}
  /\ last' = Step("load", "settle", o.n, 0, o.project, o.held, "ok", "fulfilled")
  /\ latestLoad' = LoadSettled(latestLoad, o, "ok", pending')
  /\ UNCHANGED <<revoked, storage, nextOp, nextId, failedAdds>>
  /\ UNCHANGED earlyDeleted
  /\ UNCHANGED notStoreVars

LoadProjectMediaFetchFailed(o) ==
  /\ o.kind = "load"
  /\ mediaItems' = LoadOnFetchFailed(mediaItems)
  /\ dropped' = dropped \cup (UrlsOf(mediaItems) \ UrlsOf(mediaItems'))
  /\ isLoading' = FALSE
  /\ pending' = pending \ {o}
  /\ last' = Step("load", "settle", o.n, 0, o.project, o.held, "fail", "fulfilled")
  /\ latestLoad' = LoadSettled(latestLoad, o, "fail", pending')
  /\ UNCHANGED <<revoked, storage, nextOp, nextId, nextHandle, failedAdds>>
  /\ UNCHANGED earlyDeleted
  /\ UNCHANGED notStoreVars

-----------------------------------------------------------------------------
(* clearProjectMedia, clearAllMedia *)

ClearProjectMediaStart(p) ==
  /\ nextOp <= MaxOps
  /\ revoked' = RevokeAll(revoked, mediaItems)
  /\ mediaItems' = <<>>
  /\ pending' = pending \cup
                  {PendingOp("clearProject", p, 0, NoItem, UrlsOf(mediaItems))}
  /\ last' = Step("clearProject", "start", nextOp, 0, p, UrlsOf(mediaItems),
                  "none", "pending")
  /\ nextOp' = nextOp + 1
  /\ UNCHANGED <<isLoading, storage, nextId, nextHandle, dropped, failedAdds>>
  /\ UNCHANGED <<earlyDeleted, latestLoad>>
  /\ UNCHANGED notStoreVars

ClearProjectMediaSettle(o, ok) ==
  /\ o.kind = "clearProject"
  /\ storage' = IF ok THEN DeleteProject(storage, o.project) ELSE storage
  /\ dropped' = dropped \cup o.held
  /\ pending' = pending \ {o}
  /\ last' = Step("clearProject", "settle", o.n, 0, o.project, o.held,
                  IF ok THEN "ok" ELSE "fail", "fulfilled")
  /\ UNCHANGED <<mediaItems, isLoading, revoked, nextOp, nextId, nextHandle, failedAdds>>
  /\ UNCHANGED <<earlyDeleted, latestLoad>>
  /\ UNCHANGED notStoreVars

\* A reset that also wipes the backing store.
ClearAllMediaWipesStorage ==
  /\ nextOp <= MaxOps
  /\ revoked' = RevokeAll(revoked, mediaItems)
  /\ mediaItems' = <<>>
  /\ dropped' = dropped \cup UrlsOf(mediaItems)
  /\ storage' = DeleteProject(DeleteProject(storage, "A"), "B")
  /\ last' = Step("clearAll", "settle", nextOp, 0, "none", UrlsOf(mediaItems),
                  "none", "returned")
  /\ nextOp' = nextOp + 1
  /\ UNCHANGED <<isLoading, pending, nextId, nextHandle, failedAdds>>
  /\ UNCHANGED <<earlyDeleted, latestLoad>>
  /\ UNCHANGED notStoreVars

ClearAllMedia ==
  /\ nextOp <= MaxOps
  /\ revoked' = RevokeAll(revoked, mediaItems)
  /\ mediaItems' = <<>>
  /\ dropped' = dropped \cup UrlsOf(mediaItems)
  /\ last' = Step("clearAll", "settle", nextOp, 0, "none", UrlsOf(mediaItems),
                  "none", "returned")
  /\ nextOp' = nextOp + 1
  /\ UNCHANGED <<isLoading, storage, pending, nextId, nextHandle, failedAdds>>
  /\ UNCHANGED <<earlyDeleted, latestLoad>>
  /\ UNCHANGED notStoreVars

-----------------------------------------------------------------------------
(* The store's specification *)

NextStore ==
  \/ \E p \in Projects, thumb \in ThumbKinds : AddMediaItemStart(p, thumb)
  \/ \E o \in pending : AddMediaItemSaved(o)
  \/ \E o \in pending : AddMediaItemSaveFailed(o)
  \/ \E p \in Projects, id \in 1..MaxAdds : RemoveMediaItemStart(p, id)
  \/ \E o \in pending, ok \in BOOLEAN : RemoveMediaItemSettle(o, ok)
  \/ \E p \in Projects : LoadProjectMediaStart(p)
  \/ \E o \in pending : LoadProjectMediaFetched(o)
  \/ \E o \in pending : LoadProjectMediaFetchFailed(o)
  \/ \E p \in Projects : ClearProjectMediaStart(p)
  \/ \E o \in pending, ok \in BOOLEAN : ClearProjectMediaSettle(o, ok)
  \/ ClearAllMedia

-----------------------------------------------------------------------------
(* The lazy FFmpeg loader: loadFFmpeg, preloadFFmpeg *)

InitLoader ==
  /\ ffmpegPromise = 0
  /\ promiseState = <<>>
  /\ startedBy = <<>>
  /\ scheduled = [idle |-> 0, timer |-> 0]
  /\ preloads = 0
  /\ callers = <<>>
  /\ awaited = {}
  /\ unhandled = {}

\* Number of import() calls made.
ImportCount == Len(promiseState)

\* A loader that memoizes the loaded module instead of the promise.
ShouldImportUntilLoaded(fp, states) == fp = 0 \/ states[fp] # "fulfilled"

\* if (!ffmpegPromise)
ShouldImport(fp, states) == fp = 0

\* loadFFmpeg(), called by who: the promise it returns and the loader's state after it.
LoadFFmpeg(who) ==
  IF ShouldImport(ffmpegPromise, promiseState)
  THEN [ret |-> ImportCount + 1,
        fp |-> ImportCount + 1,
        states |-> Append(promiseState, "pending"),
        by |-> Append(startedBy, who)]
  ELSE [ret |-> ffmpegPromise, fp |-> ffmpegPromise, states |-> promiseState,
        by |-> startedBy]

\* preloadFFmpeg(): schedules the callback, with requestIdleCallback or setTimeout.
PreloadFFmpeg ==
  /\ preloads < MaxPreloads
  /\ preloads' = preloads + 1
  /\ \/ /\ hasIdleCallback
        /\ scheduled' = [scheduled EXCEPT !.idle = @ + 1]
     \/ /\ ~hasIdleCallback
        /\ scheduled' = [scheduled EXCEPT !.timer = @ + 1]
  /\ UNCHANGED <<ffmpegPromise, promiseState, startedBy, hasIdleCallback, callers,
                 awaited, unhandled>>
  /\ UNCHANGED notLoaderVars

\* The scheduled callback runs: () => loadFFmpeg(), its promise dropped.
PreloadCallback(k) ==
  /\ scheduled[k] > 0
  /\ scheduled' = [scheduled EXCEPT ![k] = @ - 1]
  /\ LET r == LoadFFmpeg("preload")
     IN /\ ffmpegPromise' = r.fp
        /\ promiseState' = r.states
        /\ startedBy' = r.by
  /\ UNCHANGED <<preloads, hasIdleCallback, callers, awaited, unhandled>>
  /\ UNCHANGED notLoaderVars

\* Other code calls loadFFmpeg() and awaits the promise it gets.
LoadFFmpegCall ==
  /\ Len(callers) < MaxCalls
  /\ LET r == LoadFFmpeg("direct")
     IN /\ ffmpegPromise' = r.fp
        /\ promiseState' = r.states
        /\ startedBy' = r.by
        /\ callers' = Append(callers, [promise |-> r.ret, outcome |-> "waiting"])
        /\ awaited' = awaited \cup {r.ret}
  /\ UNCHANGED <<scheduled, preloads, hasIdleCallback, unhandled>>
  /\ UNCHANGED notLoaderVars

\* The import of promise i succeeds.
ImportResolves(i) ==
  /\ promiseState[i] = "pending"
  /\ promiseState' = [promiseState EXCEPT ![i] = "fulfilled"]
  /\ UNCHANGED <<ffmpegPromise, startedBy, scheduled, preloads, hasIdleCallback,
                 callers, awaited, unhandled>>
  /\ UNCHANGED notLoaderVars

\* The import of promise i fails; a rejection nobody handles is reported by the host.
ImportRejects(i) ==
  /\ promiseState[i] = "pending"
  /\ promiseState' = [promiseState EXCEPT ![i] = "rejected"]
  /\ unhandled' = IF i \in awaited THEN unhandled ELSE unhandled \cup {i}
  /\ UNCHANGED <<ffmpegPromise, startedBy, scheduled, preloads, hasIdleCallback,
                 callers, awaited>>
  /\ UNCHANGED notLoaderVars

\* The await of caller c resumes with the promise's outcome.
CallerResumes(c) ==
  /\ callers[c].outcome = "waiting"
  /\ promiseState[callers[c].promise] # "pending"
  /\ callers' = [callers EXCEPT ![c].outcome = promiseState[callers[c].promise]]
  /\ UNCHANGED <<ffmpegPromise, promiseState, startedBy, scheduled, preloads,
                 hasIdleCallback, awaited, unhandled>>
  /\ UNCHANGED notLoaderVars

NextLoader ==
  \/ PreloadFFmpeg
  \/ \E k \in {"idle", "timer"} : PreloadCallback(k)
  \/ LoadFFmpegCall
  \/ \E i \in 1..ImportCount : ImportResolves(i)
  \/ \E i \in 1..ImportCount : ImportRejects(i)
  \/ \E c \in 1..Len(callers) : CallerResumes(c)

-----------------------------------------------------------------------------
(* getFileType.  A content type is the sequence of its characters. *)

ImagePrefix == <<"i", "m", "a", "g", "e", "/">>

VideoPrefix == <<"v", "i", "d", "e", "o", "/">>

AudioPrefix == <<"a", "u", "d", "i", "o", "/">>

\* type.includes(prefix)
Includes(type, prefix) ==
  \E k \in 1..Len(type) :
    k + Len(prefix) - 1 <= Len(type) /\ SubSeq(type, k, k + Len(prefix) - 1) = prefix

\* type.startsWith(prefix)
StartsWith(type, prefix) ==
  Len(type) >= Len(prefix) /\ SubSeq(type, 1, Len(prefix)) = prefix

GetFileType(file) ==
  IF StartsWith(file.type, ImagePrefix) THEN "image"
  ELSE IF StartsWith(file.type, VideoPrefix) THEN "video"
  ELSE IF StartsWith(file.type, AudioPrefix) THEN "audio"
  ELSE "null"

\* The content types of the files of a batch: image/png, video/mp4, audio/mp3,
\* text/css, the empty type, and two types that hold a media prefix without
\* starting with it: "image" and "x-video/mp4".
BatchTypes ==
  { ImagePrefix \o <<"p", "n", "g">>,
    VideoPrefix \o <<"m", "p", "4">>,
    AudioPrefix \o <<"m", "p", "3">>,
    <<"t", "e", "x", "t", "/", "c", "s", "s">>,
    <<>>,
    <<"i", "m", "a", "g", "e">>,
    <<"x", "-">> \o VideoPrefix \o <<"m", "p", "4">> }

\* The batches: every sequence of up to MaxFiles files, file i named i.
Batches ==
  UNION {{[i \in 1..n |-> [name |-> i, type |-> t[i]]] : t \in [1..n -> BatchTypes]}
         : n \in 0..MaxFiles}

-----------------------------------------------------------------------------
(* processMediaFiles *)

\* The locals of one iteration, and for a video: clip, the length of the video
\* in milliseconds, and seek, the timestamps (in milliseconds) at which a frame
\* was captured for its thumbnail.
NoCur == [url |-> NoUrl, thumbnailUrl |-> NoUrl, duration |-> "unset",
          width |-> "unset", height |-> "unset", fps |-> "unset",
          clip |-> 0, seek |-> {}]

\* The lengths of the videos: 5 s and 20 s.
ClipDurations == {5000, 20000}

\* video.currentTime = Math.min(1, video.duration * 0.1), in milliseconds
BasicThumbnailTime(d) == IF d \div 10 < 1000 THEN d \div 10 ELSE 1000

\* The second argument of ffmpegUtils.generateThumbnail(file, 1), in milliseconds
FfmpegThumbnailTime(d) == 1000

\* The engine renders the frame at the timestamp it is given.
GenerateThumbnailAt(t) == t

InitPipe ==
  /\ idx = 1
  /\ pc = "loop"
  /\ cur = NoCur
  /\ ffmpegUtils = FALSE
  /\ processedItems = <<>>
  /\ completed = 0
  /\ progress = <<>>
  /\ toasts = <<>>
  /\ yields = [i \in 1..Len(files) |-> 0]
  /\ created = {}

\* A percentage that forgets to divide by the total.
PercentOfOne(c, total) == 100 * c

\* Math.ceil in place of Math.round.
PercentCeil(c, total) == (100 * c + total - 1) \div total

\* Math.round((completed / total) * 100), in exact arithmetic: the nearest
\* integer, a tie going up.  The double the code rounds is that of the exact
\* value for totals below 40, and whenever the exact value is 99.5 (199/200,
\* 398/400, ...); at some other ties of larger totals the double falls just
\* under the tie (23/40 gives 57).
Percent(c, total) == (200 * c + total) \div (2 * total)

\* An unshift instead of a push.
PushedFirst(items, file, c) ==
  <<[name |-> file.name, type |-> GetFileType(file), url |-> c.url,
     thumbnailUrl |-> c.thumbnailUrl, duration |-> c.duration,
     width |-> c.width, height |-> c.height, fps |-> c.fps]>> \o items

\* processedItems.push({name, type, file, url, thumbnailUrl, duration, ...})
Pushed(items, file, c) ==
  Append(items, [name |-> file.name, type |-> GetFileType(file), url |-> c.url,
                 thumbnailUrl |-> c.thumbnailUrl, duration |-> c.duration,
                 width |-> c.width, height |-> c.height, fps |-> c.fps])

\* A catch block that forgets the preview url.
CatchFileKeepsUrl ==
  /\ toasts' = Append(toasts, <<"failed", files[idx].name>>)
  /\ revoked' = revoked
  /\ idx' = idx + 1
  /\ pc' = "loop"
  /\ cur' = NoCur

\* The outer catch block: diagnostic, release of the preview url, next file.
CatchFile ==
  /\ toasts' = Append(toasts, <<"failed", files[idx].name>>)
  /\ revoked' = Revoke(revoked, cur.url)
  /\ idx' = idx + 1
  /\ pc' = "loop"
  /\ cur' = NoCur

\* A loop that gives up at the first unsupported file.
SkipUnsupportedAborts(i) == Len(files) + 1

\* continue: the position of the loop after an unsupported file.
SkipUnsupported(i) == i + 1

\* The loop reaches a file getFileType rejects: a diagnostic, and on to the next.
PipeSkipUnsupported ==
  /\ pc = "loop" /\ idx <= Len(files)
  /\ GetFileType(files[idx]) = "null"
  /\ toasts' = Append(toasts, <<"unsupported", files[idx].name>>)
  /\ idx' = SkipUnsupported(idx)
  /\ UNCHANGED <<pc, cur, ffmpegUtils, processedItems, completed, progress, yields,
                 created, revoked, nextHandle, ffmpegPromise, promiseState,
                 startedBy, awaited>>
  /\ UNCHANGED notPipeVars

\* An image: the preview url, then getImageDimensions (which makes a url of its
\* own for the <img>) is awaited.
PipeStartImage ==
  /\ pc = "loop" /\ idx <= Len(files)
  /\ GetFileType(files[idx]) = "image"
  /\ cur' = [NoCur EXCEPT !.url = BlobUrl(nextHandle)]
  /\ created' = created \cup {BlobUrl(nextHandle), BlobUrl(nextHandle + 1)}
  /\ nextHandle' = nextHandle + 2
  /\ pc' = "image"
  /\ UNCHANGED <<idx, ffmpegUtils, processedItems, completed, progress, toasts,
                 yields, revoked, ffmpegPromise, promiseState, startedBy, awaited>>
  /\ UNCHANGED notPipeVars

\* A video: the preview url, then loadFFmpeg() is awaited if the module is not
\* loaded yet, else getVideoInfo.
PipeStartVideo ==
  /\ pc = "loop" /\ idx <= Len(files)
  /\ GetFileType(files[idx]) = "video"
  /\ \E d \in ClipDurations :
       cur' = [NoCur EXCEPT !.url = BlobUrl(nextHandle), !.clip = d]
  /\ created' = created \cup {BlobUrl(nextHandle)}
  /\ nextHandle' = nextHandle + 1
  /\ IF ~ffmpegUtils
     THEN LET r == LoadFFmpeg("direct")
          IN /\ ffmpegPromise' = r.fp
             /\ promiseState' = r.states
             /\ startedBy' = r.by
             /\ awaited' = awaited \cup {r.ret}
             /\ pc' = "loadFFmpeg"
     ELSE /\ pc' = "videoInfo"
          /\ UNCHANGED <<ffmpegPromise, promiseState, startedBy, awaited>>
  /\ UNCHANGED <<idx, ffmpegUtils, processedItems, completed, progress, toasts,
                 yields, revoked>>
  /\ UNCHANGED notPipeVars

\* An audio file: the preview url, then getMediaDuration (with a url of its own).
PipeStartAudio ==
  /\ pc = "loop" /\ idx <= Len(files)
  /\ GetFileType(files[idx]) = "audio"
  /\ cur' = [NoCur EXCEPT !.url = BlobUrl(nextHandle)]
  /\ created' = created \cup {BlobUrl(nextHandle), BlobUrl(nextHandle + 1)}
  /\ nextHandle' = nextHandle + 2
  /\ pc' = "audio"
  /\ UNCHANGED <<idx, ffmpegUtils, processedItems, completed, progress, toasts,
                 yields, revoked, ffmpegPromise, promiseState, startedBy, awaited>>
  /\ UNCHANGED notPipeVars

\* The item is pushed and the setTimeout(0) yield awaited.
PushAndYield(c) ==
  /\ cur' = c
  /\ processedItems' = Pushed(processedItems, files[idx], c)
  /\ pc' = "yield"

\* getImageDimensions settles.
PipeImageSettles(ok) ==
  /\ pc = "image"
  /\ IF ok
     THEN /\ PushAndYield([cur EXCEPT !.width = "basic", !.height = "basic"])
          /\ UNCHANGED <<idx, toasts, revoked>>
     ELSE /\ CatchFile
          /\ UNCHANGED processedItems
  /\ UNCHANGED <<ffmpegUtils, completed, progress, yields, created, nextHandle,
                 ffmpegPromise, promiseState, startedBy, awaited>>
  /\ UNCHANGED notPipeVars

\* The fallback starts: generateVideoThumbnail (with a url of its own) is awaited.
StartFallback ==
  /\ created' = created \cup {BlobUrl(nextHandle)}
  /\ nextHandle' = nextHandle + 1
  /\ pc' = "fbThumb"

\* await loadFFmpeg() resumes with the module.
PipeEngineLoaded ==
  /\ pc = "loadFFmpeg"
  /\ promiseState[ffmpegPromise] = "fulfilled"
  /\ ffmpegUtils' = TRUE
  /\ pc' = "videoInfo"
  /\ UNCHANGED <<idx, cur, processedItems, completed, progress, toasts, yields,
                 created, revoked, nextHandle, ffmpegPromise, promiseState,
                 startedBy, awaited>>
  /\ UNCHANGED notPipeVars

\* await loadFFmpeg() throws: the inner catch starts the fallback.
PipeEngineLoadFailed ==
  /\ pc = "loadFFmpeg"
  /\ promiseState[ffmpegPromise] = "rejected"
  /\ StartFallback
  /\ UNCHANGED <<idx, cur, ffmpegUtils, processedItems, completed, progress, toasts,
                 yields, revoked, ffmpegPromise, promiseState, startedBy, awaited>>
  /\ UNCHANGED notPipeVars

\* ffmpegUtils.getVideoInfo settles: its values are stored and generateThumbnail
\* awaited, or the inner catch starts the fallback.
PipeVideoInfoSettles(ok) ==
  /\ pc = "videoInfo"
  /\ IF ok
     THEN /\ cur' = [cur EXCEPT !.duration = "ffmpeg", !.width = "ffmpeg",
                                !.height = "ffmpeg", !.fps = "ffmpeg"]
          /\ pc' = "ffThumb"
          /\ UNCHANGED <<created, nextHandle>>
     ELSE /\ StartFallback
          /\ UNCHANGED cur
  /\ UNCHANGED <<idx, ffmpegUtils, processedItems, completed, progress, toasts,
                 yields, revoked, ffmpegPromise, promiseState, startedBy, awaited>>
  /\ UNCHANGED notPipeVars

\* ffmpegUtils.generateThumbnail settles: a thumbnail url of its own, the item
\* is pushed; or the inner catch starts the fallback.
PipeFfThumbSettles(ok) ==
  /\ pc = "ffThumb"
  /\ IF ok
     THEN /\ PushAndYield([cur EXCEPT
              !.thumbnailUrl = BlobUrl(nextHandle),
              !.seek = {GenerateThumbnailAt(FfmpegThumbnailTime(cur.clip))}])
          /\ created' = created \cup {BlobUrl(nextHandle)}
          /\ nextHandle' = nextHandle + 1
     ELSE /\ StartFallback
          /\ UNCHANGED <<cur, processedItems>>
  /\ UNCHANGED <<idx, ffmpegUtils, completed, progress, toasts, yields, revoked,
                 ffmpegPromise, promiseState, startedBy, awaited>>
  /\ UNCHANGED notPipeVars

\* generateVideoThumbnail settles: thumbnail and dimensions are stored and
\* getMediaDuration (with a url of its own) awaited, or the outer catch runs.
PipeFbThumbSettles(ok) ==
  /\ pc = "fbThumb"
  /\ IF ok
     THEN /\ cur' = [cur EXCEPT !.thumbnailUrl = DataUrl, !.width = "basic",
                                !.height = "basic",
                                !.seek = {BasicThumbnailTime(cur.clip)}]
          /\ created' = created \cup {BlobUrl(nextHandle)}
          /\ nextHandle' = nextHandle + 1
          /\ pc' = "fbDuration"
          /\ UNCHANGED <<idx, toasts, revoked>>
     ELSE /\ CatchFile
          /\ UNCHANGED <<created, nextHandle>>
  /\ UNCHANGED <<ffmpegUtils, processedItems, completed, progress, yields,
                 ffmpegPromise, promiseState, startedBy, awaited>>
  /\ UNCHANGED notPipeVars

\* getMediaDuration settles, for the fallback of a video or for an audio file.
PipeDurationSettles(ok) ==
  /\ pc \in {"fbDuration", "audio"}
  /\ IF ok
     THEN /\ PushAndYield([cur EXCEPT !.duration = "basic"])
          /\ UNCHANGED <<idx, toasts, revoked>>
     ELSE /\ CatchFile
          /\ UNCHANGED processedItems
  /\ UNCHANGED <<ffmpegUtils, completed, progress, yields, created, nextHandle,
                 ffmpegPromise, promiseState, startedBy, awaited>>
  /\ UNCHANGED notPipeVars

\* The yield is over: completed is counted and reported; an onProgress that
\* throws lands in the outer catch.
PipeYielded(throws) ==
  /\ pc = "yield"
  /\ throws => onProgress = "given"
  /\ yields' = [yields EXCEPT ![idx] = @ + 1]
  /\ completed' = completed + 1
  /\ progress' = IF onProgress = "given"
                 THEN Append(progress, Percent(completed + 1, Len(files)))
                 ELSE progress
  /\ IF throws
     THEN CatchFile
     ELSE /\ idx' = idx + 1
          /\ pc' = "loop"
          /\ cur' = NoCur
          /\ UNCHANGED <<toasts, revoked>>
  /\ UNCHANGED <<ffmpegUtils, processedItems, created, nextHandle, ffmpegPromise,
                 promiseState, startedBy, awaited>>
  /\ UNCHANGED notPipeVars

\* The loop is over: return processedItems.
PipeReturn ==
  /\ pc = "loop" /\ idx > Len(files)
  /\ pc' = "done"
  /\ UNCHANGED <<idx, cur, ffmpegUtils, processedItems, completed, progress, toasts,
                 yields, created, revoked, nextHandle, ffmpegPromise, promiseState,
                 startedBy, awaited>>
  /\ UNCHANGED notPipeVars

NextPipe ==
  \/ PipeSkipUnsupported
  \/ PipeStartImage
  \/ PipeStartVideo
  \/ PipeStartAudio
  \/ \E ok \in BOOLEAN : PipeImageSettles(ok)
  \/ PipeEngineLoaded
  \/ PipeEngineLoadFailed
  \/ \E ok \in BOOLEAN : PipeVideoInfoSettles(ok)
  \/ \E ok \in BOOLEAN : PipeFfThumbSettles(ok)
  \/ \E ok \in BOOLEAN : PipeFbThumbSettles(ok)
  \/ \E ok \in BOOLEAN : PipeDurationSettles(ok)
  \/ \E throws \in BOOLEAN : PipeYielded(throws)
  \/ PipeReturn
  \/ \E i \in 1..ImportCount : ImportResolves(i)
  \/ \E i \in 1..ImportCount : ImportRejects(i)

-----------------------------------------------------------------------------
(* The waitlist count and its cache *)

\* const CACHE_TTL = 5 * 60 * 1000
CACHE_TTL == 5 * 60 * 1000

\* let waitlistCountCache: { count: number; timestamp: number } | null = null
NoCache == [present |-> FALSE, count |-> 0, timestamp |-> 0]

\* waitlistCountCache = { count, timestamp: Date.now() }
CacheOf(c, t) == [present |-> TRUE, count |-> c, timestamp |-> t]

\* A test that keeps an entry of exactly CACHE_TTL milliseconds.
IsFreshInclusive(cache, t) == cache.present /\ t - cache.timestamp <= CACHE_TTL

\* waitlistCountCache && Date.now() - waitlistCountCache.timestamp < CACHE_TTL
IsFresh(cache, t) == cache.present /\ t - cache.timestamp < CACHE_TTL

\* waitlistCountCache?.count || 0
CachedOrZero(cache) == IF cache.present THEN cache.count ELSE 0

\* select count() from waitlist
CountRows(table) == Cardinality(table)

\* The clock moves by a millisecond or by a millisecond less than CACHE_TTL,
\* so that an entry can be CACHE_TTL - 1, CACHE_TTL and CACHE_TTL + 1 old.
TickSteps == {1, CACHE_TTL - 1}

\* How many advances made the clock read t.
TicksOf(t) == (t \div (CACHE_TTL - 1)) + (t % (CACHE_TTL - 1))

InitWaitlist ==
  /\ waitlistCountCache = NoCache
  /\ now = 0
  /\ waitlistTable = {}
  /\ countCalls = <<>>
  /\ invalidated = FALSE
  /\ posts = <<>>

Tick(d) ==
  /\ TicksOf(now) < MaxTicks
  /\ now' = now + d
  /\ UNCHANGED <<waitlistCountCache, waitlistTable, countCalls, invalidated,
                 redis, posts>>
  /\ UNCHANGED notWaitlistVars

\* getWaitlistCount(), up to the return of the cached count or to the await of
\* the query.  asked: the number of rows when the query was sent.
GetWaitlistCountStart ==
  /\ Len(countCalls) < MaxCountCalls
  /\ countCalls' = Append(countCalls,
       IF IsFresh(waitlistCountCache, now)
       THEN [state |-> "returned", hit |-> TRUE, afterInvalidation |-> invalidated,
             asked |-> 0, dbOk |-> TRUE, result |-> waitlistCountCache.count]
       ELSE [state |-> "querying", hit |-> FALSE, afterInvalidation |-> invalidated,
             asked |-> CountRows(waitlistTable), dbOk |-> TRUE, result |-> 0])
  /\ invalidated' = FALSE
  /\ UNCHANGED <<waitlistCountCache, now, waitlistTable, redis, posts>>
  /\ UNCHANGED notWaitlistVars

\* getWaitlistCount() after the await.  The database ran the query at some
\* moment between the call and the answer: it counted the rows of then or of now.
GetWaitlistCountAnswered(i, ok) ==
  /\ countCalls[i].state = "querying"
  /\ IF ok
     THEN \E count \in {countCalls[i].asked, CountRows(waitlistTable)} :
            /\ waitlistCountCache' = CacheOf(count, now)
            /\ countCalls' = [countCalls EXCEPT ![i].state = "returned",
                                                ![i].result = count]
     ELSE /\ waitlistCountCache' = waitlistCountCache
          /\ countCalls' = [countCalls EXCEPT
                              ![i].state = "returned", ![i].dbOk = FALSE,
                              ![i].result = CachedOrZero(waitlistCountCache)]
  /\ UNCHANGED <<now, waitlistTable, invalidated, redis, posts>>
  /\ UNCHANGED notWaitlistVars

\* invalidateWaitlistCountCache(): waitlistCountCache = null
InvalidateWaitlistCountCache == NoCache

-----------------------------------------------------------------------------
(* The rate limiter and the signup handler: POST /api/waitlist *)

\* export const waitlistRateLimit = redis ? new Ratelimit({...}) : null
WaitlistRateLimit == IF redis = "null" THEN "null" ELSE "Ratelimit"

Emails == {"a@x.io"}

\* The request bodies: a valid email, a string that is no email, no JSON.
Bodies == Emails \cup {"not-an-email", "not-json"}

\* The responses the handler builds.
Statuses == {201, 400, 409, 429, 500}

\* return NextResponse.json(..., { status })
Respond(i, status) == [posts EXCEPT ![i].pc = "done", ![i].status = status]

\* POST up to its first await: waitlistRateLimit.limit(identifier), which is
\* evaluated outside the try block.  On null the member access throws a
\* TypeError that nothing in the handler catches.
WaitlistPostStart(body) ==
  /\ Len(posts) < MaxPosts
  /\ posts' = Append(posts,
       IF WaitlistRateLimit = "null"
       THEN [body |-> body, pc |-> "done", status |-> 0, threw |-> TRUE]
       ELSE [body |-> body, pc |-> "limit", status |-> 0, threw |-> FALSE])
  /\ UNCHANGED <<waitlistCountCache, now, waitlistTable, countCalls, invalidated, redis>>
  /\ UNCHANGED notWaitlistVars

\* The limiter answers; then request.json() and waitlistSchema.parse(body), and
\* the select of the email is sent.
WaitlistPostLimited(i, success) ==
  /\ posts[i].pc = "limit"
  /\ posts' = IF ~success THEN Respond(i, 429)
              ELSE IF posts[i].body = "not-json" THEN Respond(i, 500)
              ELSE IF posts[i].body = "not-an-email" THEN Respond(i, 400)
              ELSE [posts EXCEPT ![i].pc = "select"]
  /\ UNCHANGED <<waitlistCountCache, now, waitlistTable, countCalls, invalidated, redis>>
  /\ UNCHANGED notWaitlistVars

\* The select answers; a known email is refused, a new one is inserted.
WaitlistPostSelected(i, ok) ==
  /\ posts[i].pc = "select"
  /\ posts' = IF ~ok THEN Respond(i, 500)
              ELSE IF posts[i].body \in waitlistTable THEN Respond(i, 409)
              ELSE [posts EXCEPT ![i].pc = "insert"]
  /\ UNCHANGED <<waitlistCountCache, now, waitlistTable, countCalls, invalidated, redis>>
  /\ UNCHANGED notWaitlistVars

\* The insert answers; on success the count cache is invalidated.
WaitlistPostInserted(i, ok) ==
  /\ posts[i].pc = "insert"
  /\ IF ok
     THEN /\ waitlistTable' = waitlistTable \cup {posts[i].body}
          /\ waitlistCountCache' = InvalidateWaitlistCountCache
          /\ invalidated' = TRUE
          /\ posts' = Respond(i, 201)
     ELSE /\ posts' = Respond(i, 500)
          /\ UNCHANGED <<waitlistTable, waitlistCountCache, invalidated>>
  /\ UNCHANGED <<now, countCalls, redis>>
  /\ UNCHANGED notWaitlistVars

NextWaitlist ==
  \/ \E d \in TickSteps : Tick(d)
  \/ GetWaitlistCountStart
  \/ \E i \in 1..Len(countCalls), ok \in BOOLEAN : GetWaitlistCountAnswered(i, ok)
  \/ \E body \in Bodies : WaitlistPostStart(body)
  \/ \E i \in 1..Len(posts), success \in BOOLEAN : WaitlistPostLimited(i, success)
  \/ \E i \in 1..Len(posts), ok \in BOOLEAN : WaitlistPostSelected(i, ok)
  \/ \E i \in 1..Len(posts), ok \in BOOLEAN : WaitlistPostInserted(i, ok)

-----------------------------------------------------------------------------
(* debounce and throttle.  The k-th call passes the argument k; an event of a
   log is <<kind, argument, time>>. *)

InitRate ==
  /\ time = 0
  /\ timers = {}
  /\ timeout = 0
  /\ debounceLog = <<>>
  /\ inThrottle = FALSE
  /\ throttleLog = <<>>

\* The host's clock advances by a millisecond.
TimePasses ==
  /\ time < MaxTime
  /\ time' = time + 1
  /\ UNCHANGED <<timers, wait, timeout, debounceLog, limit, inThrottle, throttleLog>>
  /\ UNCHANGED notRateVars

\* A clearTimeout that was left out.
ClearTimeoutMissing(pendingTimers, id) == pendingTimers

\* if (timeout) clearTimeout(timeout)
ClearTimeout(pendingTimers, id) == {t \in pendingTimers : t.id # id}

\* executedFunction(...args) of debounce: the pending timer is cleared and a new
\* one set.
DebouncedCall ==
  /\ Cardinality({k \in 1..Len(debounceLog) : debounceLog[k][1] = "call"}) < MaxRateCalls
  /\ LET n == Cardinality({k \in 1..Len(debounceLog) : debounceLog[k][1] = "call"}) + 1
     IN /\ timers' = ClearTimeout(timers, timeout) \cup
                       {[id |-> n, due |-> time + wait, callback |-> "later", args |-> n]}
        /\ timeout' = n
        /\ debounceLog' = Append(debounceLog, <<"call", n, time>>)
  /\ UNCHANGED <<time, wait, limit, inThrottle, throttleLog>>
  /\ UNCHANGED notRateVars

\* later(): timeout = null; func(...args)
DebounceTimerFires(t) ==
  /\ t \in timers /\ t.callback = "later"
  /\ time >= t.due
  /\ timers' = timers \ {t}
  /\ timeout' = 0
  /\ debounceLog' = Append(debounceLog, <<"invoke", t.args, time>>)
  /\ UNCHANGED <<time, wait, limit, inThrottle, throttleLog>>
  /\ UNCHANGED notRateVars

\* executedFunction(...args) of throttle.  func is called before inThrottle is
\* set: when func throws, the two statements after the call do not run.
ThrottledCall(outcome) ==
  /\ Len(throttleLog) < MaxRateCalls
  /\ LET n == Len(throttleLog) + 1
     IN IF ~inThrottle
        THEN /\ throttleLog' = Append(throttleLog, <<"invoke", n, time>>)
             /\ IF outcome = "returns"
                THEN /\ inThrottle' = TRUE
                     /\ timers' = timers \cup
                          {[id |-> n, due |-> time + limit, callback |-> "release",
                            args |-> n]}
                ELSE UNCHANGED <<inThrottle, timers>>
        ELSE /\ throttleLog' = Append(throttleLog, <<"ignored", n, time>>)
             /\ UNCHANGED <<inThrottle, timers>>
  /\ UNCHANGED <<time, wait, timeout, debounceLog, limit>>
  /\ UNCHANGED notRateVars

\* () => { inThrottle = false }
ThrottleTimerFires(t) ==
  /\ t \in timers /\ t.callback = "release"
  /\ time >= t.due
  /\ timers' = timers \ {t}
  /\ inThrottle' = FALSE
  /\ UNCHANGED <<time, wait, timeout, debounceLog, limit, throttleLog>>
  /\ UNCHANGED notRateVars

NextDebounce ==
  \/ TimePasses
  \/ DebouncedCall
  \/ \E t \in timers : DebounceTimerFires(t)

NextThrottle ==
  \/ TimePasses
  \/ \E outcome \in {"returns", "throws"} : ThrottledCall(outcome)
  \/ \E t \in timers : ThrottleTimerFires(t)

-----------------------------------------------------------------------------
(* Specifications *)

\* No debounced or throttled function is in use.
NoRate == InitRate /\ wait = 1 /\ limit = 1

\* Nothing has happened on the waitlist; Redis is configured.
NoWaitlist == InitWaitlist /\ redis = "client"

\* No batch is being processed.
NoBatch == files = <<>> /\ onProgress = "none" /\ InitPipe

Init ==
  InitStore /\ InitLoader /\ hasIdleCallback = TRUE /\ NoBatch /\ NoWaitlist /\ NoRate

\* The media store.
Spec == Init /\ [][NextStore]_vars

\* The lazy loader, in a host with or without requestIdleCallback.
InitLoaderSpec ==
  InitStore /\ InitLoader /\ hasIdleCallback \in BOOLEAN /\ NoBatch /\ NoWaitlist
  /\ NoRate

SpecLoader == InitLoaderSpec /\ [][NextLoader]_vars

\* One call of processMediaFiles, on any batch, with or without onProgress.
InitPipeSpec ==
  /\ InitStore /\ InitLoader /\ hasIdleCallback = TRUE
  /\ files \in Batches
  /\ onProgress \in {"none", "given"}
  /\ InitPipe
  /\ NoWaitlist /\ NoRate

SpecPipe == InitPipeSpec /\ [][NextPipe]_vars

\* The large batches: the last ManyFiles - 2 to ManyFiles files, of which the
\* first one or two are text/css and the others image/png.
LargeBatches ==
  {[i \in 1..n |-> [name |-> i,
                    type |-> IF i <= u THEN <<"t", "e", "x", "t", "/", "c", "s", "s">>
                             ELSE ImagePrefix \o <<"p", "n", "g">>]]
     : n \in (ManyFiles - 2)..ManyFiles, u \in 1..2}

\* One call of processMediaFiles on a large batch, with onProgress; every
\* extraction but possibly the last file's succeeds and onProgress returns.
InitLargeSpec ==
  /\ InitStore /\ InitLoader /\ hasIdleCallback = TRUE
  /\ files \in LargeBatches
  /\ onProgress = "given"
  /\ InitPipe
  /\ NoWaitlist /\ NoRate

NextLarge ==
  \/ PipeSkipUnsupported
  \/ PipeStartImage
  \/ \E ok \in BOOLEAN : (ok \/ idx = Len(files)) /\ PipeImageSettles(ok)
  \/ PipeYielded(FALSE)
  \/ PipeReturn

SpecLarge == InitLargeSpec /\ [][NextLarge]_vars

\* The waitlist, on a server with or without the Redis configuration.
InitWaitlistSpec ==
  /\ InitStore /\ InitLoader /\ hasIdleCallback = TRUE /\ NoBatch
  /\ InitWaitlist
  /\ redis \in {"client", "null"}
  /\ NoRate

SpecWaitlist == InitWaitlistSpec /\ [][NextWaitlist]_vars

\* A function made by debounce(func, wait), for any wait up to MaxDelay.
InitDebounceSpec ==
  /\ InitStore /\ InitLoader /\ hasIdleCallback = TRUE /\ NoBatch /\ NoWaitlist
  /\ InitRate
  /\ wait \in 1..MaxDelay
  /\ limit = 1

SpecDebounce == InitDebounceSpec /\ [][NextDebounce]_vars

\* A function made by throttle(func, limit), for any limit up to MaxDelay.
InitThrottleSpec ==
  /\ InitStore /\ InitLoader /\ hasIdleCallback = TRUE /\ NoBatch /\ NoWaitlist
  /\ InitRate
  /\ wait = 1
  /\ limit \in 1..MaxDelay

SpecThrottle == InitThrottleSpec /\ [][NextThrottle]_vars

-----------------------------------------------------------------------------
(* Properties of the store *)

Released(u) == CopiesIn(u, revoked)

\* The step just taken is a step of operation op in the given phase.
Took(op, phase) == last' # last /\ last'.op = op /\ last'.phase = phase

\* C1: no revocable handle (a blob: url) is passed to URL.revokeObjectURL more
\* than once, over all interleavings of the store's operations.
C1_NoHandleReleasedTwice ==
  \A u \in BagToSet(revoked) : Released(u) <= 1

\* C2: every revocable handle of an item that an operation dropped from the
\* collection has been released once that operation has settled.
C2_DroppedItemsAreReleased ==
  \A u \in dropped : IsBlob(u) => Released(u) >= 1

\* C3: when the save of addMediaItem fails, the step that settles the operation
\* leaves the collection as it was but for the new id, which it does not hold
\* then or later, and rejects the caller's promise.
C3_FailedAddRollsBack ==
  /\ [](\A id \in failedAdds : id \notin Ids(mediaItems))
  /\ [][(Took("add", "settle") /\ last'.io = "fail") =>
          /\ last'.id \notin Ids(mediaItems')
          /\ mediaItems' = SelectSeq(mediaItems, LAMBDA m : m.id # last'.id)
          /\ last'.result = "rejected"]_vars

C3_Witness ==
  /\ last.op = "add" /\ last.phase = "settle" /\ last.io = "fail"
  /\ last.result = "rejected"
  /\ Len(mediaItems) >= 1

\* The revocable urls of the item removeMediaItem(id) finds in the collection.
RevocableOf(items, id) ==
  LET item == Head(Find(items, id))
  IN {u \in {item.url, item.thumbnailUrl} : IsBlob(u)}

\* C4: removeMediaItem on a present id makes exactly one release call for each
\* revocable url of the item and none for any other url, drops the item from
\* the collection in the step that issues the delete (the delete is still
\* awaited and the backing store untouched); when the delete fails, the
\* settling step leaves the collection alone and fulfils the caller's promise.
C4_RemoveReleasesOnceAndStaysRemoved ==
  /\ [][(Took("remove", "start") /\ last'.id \in Ids(mediaItems)) =>
          LET mine == RevocableOf(mediaItems, last'.id)
          IN /\ \A u \in mine : CopiesIn(u, revoked') = CopiesIn(u, revoked) + 1
             /\ \A u \in (BagToSet(revoked') \cup UrlsOf(mediaItems)) \ mine :
                  CopiesIn(u, revoked') = CopiesIn(u, revoked)
             /\ last'.id \notin Ids(mediaItems')
             /\ mediaItems' = SelectSeq(mediaItems, LAMBDA m : m.id # last'.id)
             /\ \E o \in pending' : o.n = last'.n /\ o.kind = "remove"
             /\ storage' = storage]_vars
  /\ [][(Took("remove", "settle") /\ last'.io = "fail") =>
          /\ mediaItems' = mediaItems
          /\ last'.result = "fulfilled"]_vars

C4_Witness ==
  /\ last.op = "remove" /\ last.phase = "settle" /\ last.io = "fail"
  /\ last.id \notin Ids(mediaItems)
  /\ Cardinality({u \in last.held : IsBlob(u)}) = 2
  /\ \A u \in last.held : IsBlob(u) => Released(u) = 1

\* C5: removeMediaItem on an id that is not in the collection makes no release
\* call and leaves the collection unchanged, and the caller's promise is
\* fulfilled whether the delete succeeds or fails.  (Every item holds a url,
\* so an operation that found no url found no item.)
C5_RemoveAbsentIsNoOp ==
  /\ [][(Took("remove", "start") /\ last'.id \notin Ids(mediaItems)) =>
          /\ revoked' = revoked
          /\ mediaItems' = mediaItems]_vars
  /\ [][(Took("remove", "settle") /\ last'.held = {}) =>
          /\ revoked' = revoked
          /\ mediaItems' = mediaItems
          /\ last'.result = "fulfilled"]_vars

C5_Witness ==
  /\ last.op = "remove" /\ last.phase = "settle" /\ last.io = "fail"
  /\ last.held = {}
  /\ last.result = "fulfilled"
  /\ mediaItems # <<>>
  /\ revoked = EmptyBag

\* C6: loadProjectMedia releases every revocable url of the collection it finds
\* in the step that issues the fetch (the fetch is still awaited then), so they
\* are released when the fetch settles either way; a fetch that succeeds
\* installs the project's stored items, a fetch that fails empties the
\* collection.
C6_LoadReleasesBeforeFetch ==
  /\ [][Took("load", "start") =>
          /\ \A u \in UrlsOf(mediaItems) :
               IsBlob(u) => CopiesIn(u, revoked') = CopiesIn(u, revoked) + 1
          /\ \E o \in pending' : o.n = last'.n /\ o.kind = "load"]_vars
  /\ [][Took("load", "settle") =>
          /\ \A u \in last'.held : IsBlob(u) => Released(u) >= 1
          /\ last'.io = "ok" =>
               /\ mediaItems' = FetchResult(storage[last'.project], nextHandle)
               /\ Ids(mediaItems') = {x.id : x \in storage[last'.project]}
          /\ last'.io = "fail" => mediaItems' = <<>>]_vars

C6_Witness ==
  /\ last.op = "load" /\ last.phase = "settle" /\ last.io = "ok"
  /\ \E u \in last.held : IsBlob(u)
  /\ mediaItems # <<>>

\* C7: no two items of the collection have the same id.
C7_IdsUnique ==
  \A i, j \in 1..Len(mediaItems) : i # j => mediaItems[i].id # mediaItems[j].id

C7_Witness ==
  /\ last.op = "load" /\ last.phase = "settle"
  /\ Len(mediaItems) >= 2

-----------------------------------------------------------------------------
(* Properties of the loader *)

\* C8: whatever the order and timing of the loadFFmpeg and preloadFFmpeg calls,
\* import() is called at most once and every loadFFmpeg caller gets the same
\* promise.
C8_EngineLoadedOnce ==
  /\ ImportCount <= 1
  /\ \A c, d \in 1..Len(callers) : callers[c].promise = callers[d].promise

C8_Witness ==
  /\ ImportCount = 1
  /\ preloads = 2 /\ scheduled = [idle |-> 0, timer |-> 0]
  /\ Len(callers) >= 2
  /\ callers[1].outcome = "fulfilled"
  /\ callers[Len(callers)].outcome = "waiting"

\* C9: a failure of the load that the preload callback started is never
\* reported as an unhandled rejection and never reaches a caller of loadFFmpeg.
C9_PreloadFailureSwallowed ==
  /\ \A i \in unhandled : startedBy[i] # "preload"
  /\ \A c \in 1..Len(callers) :
       callers[c].outcome = "rejected" => startedBy[callers[c].promise] # "preload"

-----------------------------------------------------------------------------
(* Properties of processMediaFiles *)

Unsupported(i) == GetFileType(files[i]) = "null"

\* File i was worked on: it has an item in the list or a failure diagnostic.
Processed(i) ==
  \/ \E k \in 1..Len(processedItems) : processedItems[k].name = i
  \/ \E k \in 1..Len(toasts) : toasts[k] = <<"failed", i>>

\* C10: no item of the list comes from a file getFileType rejects, and when
\* the call has returned every supported file that follows an unsupported one
\* has been worked on.
C10_UnsupportedSkippedNotFatal ==
  /\ \A k \in 1..Len(processedItems) : ~Unsupported(processedItems[k].name)
  /\ pc = "done" =>
       \A i \in 1..Len(files) :
         (~Unsupported(i) /\ \E j \in 1..(i - 1) : Unsupported(j)) => Processed(i)

C10_Witness ==
  /\ pc = "done"
  /\ Len(files) = 3
  /\ Unsupported(1) /\ ~Unsupported(2) /\ Unsupported(3)
  /\ \E k \in 1..Len(processedItems) : processedItems[k].name = 2

\* The items of the list that come from file i.
ItemsOf(i) == {k \in 1..Len(processedItems) : processedItems[k].name = i}

\* C11: a video item whose dimensions come from the basic fallback (the heavy
\* path failed at some step and the fallback succeeded) has fps unset and its
\* duration, width and height set by the fallback.
C11_FallbackLeavesFpsUnset ==
  \A k \in 1..Len(processedItems) :
    LET item == processedItems[k]
    IN (item.type = "video" /\ item.width = "basic") =>
         /\ item.fps = "unset"
         /\ item.duration = "basic" /\ item.height = "basic"

\* Where processMediaFiles awaits an extraction whose failure is final.
ExtractionPcs == {"image", "fbThumb", "fbDuration", "audio"}

\* C12: when the extraction of a supported file fails, the step that handles the
\* failure adds no item, leaves none for that file, releases the file's preview
\* url (once), and moves the loop to the next file; when the call has returned,
\* every file that reached the end of the success path has its item in the list.
C12_FailedFileIsDroppedAndReleased ==
  /\ [][(pc \in ExtractionPcs /\ pc' = "loop") =>
          /\ processedItems' = processedItems
          /\ ItemsOf(idx) = {}
          /\ IsBlob(cur.url)
          /\ CopiesIn(cur.url, revoked) = 0 /\ CopiesIn(cur.url, revoked') = 1
          /\ idx' = idx + 1]_vars
  /\ [](pc = "done" =>
          /\ idx = Len(files) + 1
          /\ \A i \in 1..Len(files) : yields[i] > 0 => ItemsOf(i) # {})

C12_Witness ==
  /\ pc = "done" /\ Len(files) = 3
  /\ toasts = <<<<"failed", 1>>, <<"failed", 2>>>>
  /\ GetFileType(files[1]) = "image" /\ GetFileType(files[2]) = "video"
  /\ ItemsOf(1) = {} /\ ItemsOf(2) = {} /\ ItemsOf(3) # {}
  /\ BagCardinality(revoked) = 2

\* C13: the loop only moves from a file to the next one, and only in a step
\* that leaves no work of the file pending; work is pending for the current
\* file alone; an item is appended for the current file at the end of the
\* list, so the list keeps the order of the input.
C13_OneFileAtATimeInOrder ==
  /\ [](\A k, l \in 1..Len(processedItems) :
          k < l => processedItems[k].name < processedItems[l].name)
  /\ [](pc \notin {"loop", "done"} => idx \in 1..Len(files) /\ IsBlob(cur.url))
  /\ [][idx' # idx => idx' = idx + 1 /\ pc' = "loop" /\ cur' = NoCur]_vars
  /\ [][processedItems' # processedItems =>
          /\ Len(processedItems') = Len(processedItems) + 1
          /\ SubSeq(processedItems', 1, Len(processedItems)) = processedItems
          /\ processedItems'[Len(processedItems')].name = idx
          /\ idx' = idx]_vars

C13_Witness ==
  /\ pc = "done"
  /\ Len(processedItems) = 3
  /\ processedItems[1].type = "video" /\ processedItems[3].type = "image"

\* C14: every value passed to onProgress is an integer from 0 to 100, the
\* values never decrease, and a value is passed only in the step that ends the
\* success path of a file whose item is in the list.
C14_ProgressInRangeAndMonotone ==
  /\ [](\A k \in 1..Len(progress) : progress[k] \in 0..100)
  /\ [](\A k, l \in 1..Len(progress) : k < l => progress[k] <= progress[l])
  /\ [](Len(progress) <= Len(processedItems))
  /\ [][progress' # progress =>
          /\ pc = "yield" /\ ItemsOf(idx) # {}
          /\ Len(progress') = Len(progress) + 1]_vars

C14_Witness ==
  /\ pc = "done" /\ Len(files) = 3
  /\ Unsupported(1)
  /\ <<"failed", 2>> = toasts[2]
  /\ progress = <<33>>

\* The step releases each revocable url the collection holds once more, and no
\* other url.
ReleasesAllHeld ==
  LET mine == {u \in UrlsOf(mediaItems) : IsBlob(u)}
  IN /\ \A u \in mine : CopiesIn(u, revoked') = CopiesIn(u, revoked) + 1
     /\ \A u \in (BagToSet(revoked') \cup UrlsOf(mediaItems)) \ mine :
          CopiesIn(u, revoked') = CopiesIn(u, revoked)

\* C15: the step of clearProjectMedia that issues deleteProjectMedia releases
\* every revocable url the collection holds and empties the collection while
\* the delete is still pending and the backing store untouched; when the
\* delete fails, the settling step leaves the collection and the backing store
\* alone and the caller's promise is fulfilled.
C15_ClearProjectReleasesAndEmptiesFirst ==
  /\ [][Took("clearProject", "start") =>
          /\ ReleasesAllHeld
          /\ mediaItems' = <<>>
          /\ \E o \in pending' : o.n = last'.n /\ o.kind = "clearProject"
          /\ storage' = storage]_vars
  /\ [][(Took("clearProject", "settle") /\ last'.io = "fail") =>
          /\ mediaItems' = mediaItems
          /\ storage' = storage
          /\ last'.result = "fulfilled"]_vars

C15_Witness ==
  /\ last.op = "clearProject" /\ last.phase = "settle" /\ last.io = "fail"
  /\ mediaItems = <<>>
  /\ storage[last.project] # {}
  /\ Cardinality({u \in last.held : IsBlob(u)}) = 2
  /\ \A u \in last.held : IsBlob(u) => Released(u) = 1

\* C16: clearAllMedia releases every revocable url the collection holds and
\* empties the collection; it changes nothing in the backing store and leaves
\* no backing-store operation pending.
C16_ClearAllLeavesStorageAlone ==
  [][Took("clearAll", "settle") =>
       /\ ReleasesAllHeld
       /\ mediaItems' = <<>>
       /\ storage' = storage
       /\ pending' = pending]_vars

C16_Witness ==
  /\ last.op = "clearAll"
  /\ mediaItems = <<>>
  /\ \E p \in Projects : storage[p] # {}
  /\ Cardinality({u \in last.held : IsBlob(u)}) = 2
  /\ \A u \in last.held : Released(u) = 1
  /\ pending = {}

\* The content type opens with the characters of the word, then a slash.
OpensWith(type, word) ==
  /\ Len(type) > Len(word)
  /\ \A k \in 1..Len(word) : type[k] = word[k]
  /\ type[Len(word) + 1] = "/"

\* C17: getFileType gives image for a declared content type that starts with
\* "image/", video for "video/", audio for "audio/" and null for any other
\* type; the loop of processMediaFiles takes the branch of that answer, and on
\* null changes nothing but its position and its diagnostics.
C17_GetFileTypeByPrefix ==
  /\ [](\A i \in 1..Len(files) :
          LET t == files[i].type
          IN GetFileType(files[i]) =
               IF OpensWith(t, <<"i", "m", "a", "g", "e">>) THEN "image"
               ELSE IF OpensWith(t, <<"v", "i", "d", "e", "o">>) THEN "video"
               ELSE IF OpensWith(t, <<"a", "u", "d", "i", "o">>) THEN "audio"
               ELSE "null")
  /\ [][(pc = "loop" /\ pc' \notin {"loop", "done"}) =>
          GetFileType(files[idx]) = IF pc' \in {"image", "audio"} THEN pc' ELSE "video"]_vars
  /\ [][(pc = "loop" /\ idx <= Len(files) /\ GetFileType(files[idx]) = "null") =>
          /\ idx' = idx + 1 /\ pc' = "loop"
          /\ UNCHANGED <<processedItems, revoked, nextHandle, created,
                         completed, progress, cur>>]_vars

C17_Witness ==
  /\ pc = "done" /\ Len(files) = 3
  /\ files[1].type = <<"i", "m", "a", "g", "e">>
  /\ files[2].type = <<"x", "-", "v", "i", "d", "e", "o", "/", "m", "p", "4">>
  /\ files[3].type = <<"a", "u", "d", "i", "o", "/", "m", "p", "3">>
  /\ Len(processedItems) = 1 /\ processedItems[1].type = "audio"
  /\ Len(toasts) = 2

-----------------------------------------------------------------------------
(* Properties of the waitlist *)

\* C18: the first getWaitlistCount() call made after an invalidation of the
\* cache queries the database, whatever calls were awaiting their query when
\* the cache was invalidated.
C18_RetrievalAfterInvalidationQueries ==
  \A i \in 1..Len(countCalls) : countCalls[i].afterInvalidation => ~countCalls[i].hit

\* C19: a getWaitlistCount() call that finds a cache entry younger than five
\* minutes returns the entry's count, sends no query and leaves the cache
\* alone; a call that finds an entry of five minutes or more, or none, sends
\* the query, and when the database answers, the call returns the count of the
\* answer and the cache holds that count with the time of that moment.
C19_CacheServesForFiveMinutes ==
  /\ [][Len(countCalls') = Len(countCalls) + 1 =>
          LET call == countCalls'[Len(countCalls')]
              young == /\ waitlistCountCache.present
                       /\ now - waitlistCountCache.timestamp < 5 * 60 * 1000
          IN /\ waitlistCountCache' = waitlistCountCache
             /\ IF young
                THEN /\ call.hit /\ call.state = "returned"
                     /\ call.result = waitlistCountCache.count
                ELSE /\ ~call.hit /\ call.state = "querying"]_vars
  /\ [][\A i \in 1..Len(countCalls) :
          (/\ Len(countCalls') = Len(countCalls)
           /\ countCalls[i].state = "querying"
           /\ countCalls'[i].state = "returned"
           /\ countCalls'[i].dbOk) =>
             /\ waitlistCountCache'.present
             /\ waitlistCountCache'.timestamp = now
             /\ waitlistCountCache'.count = countCalls'[i].result
             /\ countCalls'[i].result \in
                  {countCalls[i].asked, Cardinality(waitlistTable)}]_vars

\* A call served from the cache, and a later call sent to the database
\* because the entry is exactly five minutes old.
C19_Witness ==
  /\ Len(countCalls) = 3 /\ posts = <<>>
  /\ ~countCalls[1].hit /\ countCalls[1].state = "returned" /\ countCalls[1].dbOk
  /\ countCalls[2].hit
  /\ ~countCalls[3].hit /\ countCalls[3].state = "returned" /\ countCalls[3].dbOk
  /\ now = 5 * 60 * 1000
  /\ waitlistCountCache.present /\ waitlistCountCache.timestamp = now

\* C20: without the Redis configuration the limiter is null, and every POST
\* ends with one of the handler's responses, never with an uncaught error.
C20_PostWithoutRedisResponds ==
  redis = "null" =>
    /\ WaitlistRateLimit = "null"
    /\ \A i \in 1..Len(posts) :
         /\ ~posts[i].threw
         /\ posts[i].pc = "done" => posts[i].status \in Statuses

-----------------------------------------------------------------------------
(* Further properties of the pipeline and of the store *)

\* C23: when processMediaFiles has returned, the work of every file of the
\* batch, accepted, skipped or failed, was followed by exactly one yield to
\* the host's scheduler.
C23_YieldsOncePerFile ==
  pc = "done" => \A i \in 1..Len(files) : yields[i] = 1

\* C24: in every state in which the store has handed control back to the host
\* (every state of the store's specification), no revocable url of an item of
\* the collection has been released.
C24_CollectionHoldsNoReleasedUrl ==
  \A i \in 1..Len(mediaItems) :
    \A u \in {mediaItems[i].url, mediaItems[i].thumbnailUrl} :
      (u # NoUrl /\ u[1] = "blob:") => Released(u) = 0

\* The url is of the revocable form.
BlobForm(u) == u # <<>> /\ u[1] = "blob:"

\* C25: only urls of the blob: form are ever passed to URL.revokeObjectURL,
\* and the step of removeMediaItem, loadProjectMedia, clearProjectMedia or
\* clearAllMedia that cleans up makes a release call for a url of the items it
\* cleans up exactly if the url is of the blob: form.
C25_ReleaseDecidedByForm ==
  /\ [](\A u \in BagToSet(revoked) : BlobForm(u))
  /\ [][(\/ Took("remove", "start") \/ Took("load", "start")
         \/ Took("clearProject", "start") \/ Took("clearAll", "settle")) =>
          \A u \in last'.held :
            (CopiesIn(u, revoked') > CopiesIn(u, revoked)) <=> BlobForm(u)]_vars

C25_Witness ==
  /\ last.op \in {"remove", "clearProject", "clearAll", "load"}
  /\ DataUrl \in last.held
  /\ \E u \in last.held : BlobForm(u) /\ Released(u) = 1
  /\ Released(DataUrl) = 0

\* C28: every item of the list processMediaFiles returns holds a preview url
\* the call has not released, whatever the outcome of the steps of each file,
\* a throwing onProgress included.
C28_ReturnedItemsHoldLiveUrl ==
  pc = "done" =>
    \A k \in 1..Len(processedItems) :
      BlobForm(processedItems[k].url) /\ Released(processedItems[k].url) = 0

\* C29: when processMediaFiles has returned, every url URL.createObjectURL
\* gave out during the call, inside the extraction helpers too, is the url or
\* the thumbnail of a returned item or has been released.
C29_NoUrlLeftBehind ==
  pc = "done" =>
    \A u \in created : u \in UrlsOf(processedItems) \/ Released(u) >= 1

\* The ids the backing store holds, in any project.
StoredIds == UNION {{x.id : x \in storage[p]} : p \in Projects}

\* C30: once a removeMediaItem that started while the addMediaItem of its id
\* was awaiting the save has had its delete succeed, and the save has succeeded
\* too, the id is neither in the collection nor in the backing store.
C30_RemoveDuringSaveLeavesNothing ==
  \A id \in earlyDeleted :
    (id \notin failedAdds /\ ~\E o \in pending : o.kind = "add" /\ o.id = id) =>
      id \notin Ids(mediaItems) /\ id \notin StoredIds

\* The unsupported files of the batch.
UnsupportedFiles == {i \in 1..Len(files) : GetFileType(files[i]) = "null"}

\* C26: when the batch holds an unsupported file, no value passed to
\* onProgress is 100, whatever the length of the batch.
C26_No100WithUnsupported ==
  UnsupportedFiles # {} => \A k \in 1..Len(progress) : progress[k] # 100

\* C26, amended: when the batch holds u >= 1 unsupported files and fewer than
\* 200 * u files in all, no value passed to onProgress is 100.
C26_No100BelowRoundingPoint ==
  (UnsupportedFiles # {} /\ Len(files) < 200 * Cardinality(UnsupportedFiles)) =>
    \A k \in 1..Len(progress) : progress[k] # 100

C26_Witness ==
  /\ pc = "done"
  /\ Cardinality(UnsupportedFiles) = 1 /\ Len(files) = 199
  /\ Len(progress) = 198 /\ progress[198] = 99

\* C27: whichever tier made the thumbnail of a video, the frame was captured
\* at the smaller of one second and a tenth of the video's length.
C27_ThumbnailAtTenthOrOneSecond ==
  \A t \in cur.seek :
    \/ 10 * t = cur.clip /\ t <= 1000
    \/ t = 1000 /\ cur.clip >= 10 * 1000

-----------------------------------------------------------------------------
(* Properties of debounce and throttle *)

\* C21: func is invoked only right after a call, with no call in between, with
\* the arguments of that call and at least wait milliseconds after it; and
\* when no timer is pending, the last call made has had its invocation.  So of
\* a run of calls less than wait apart only the last one is followed by an
\* invocation, and by one only.
C21_DebounceInvokesOncePerBurst ==
  /\ \A k \in 1..Len(debounceLog) :
       debounceLog[k][1] = "invoke" =>
         /\ k > 1
         /\ debounceLog[k - 1][1] = "call"
         /\ debounceLog[k - 1][2] = debounceLog[k][2]
         /\ debounceLog[k][3] - debounceLog[k - 1][3] >= wait
  /\ \A k \in 1..Len(debounceLog) - 1 :
       (debounceLog[k][1] = "call" /\ debounceLog[k + 1][3] - debounceLog[k][3] < wait) =>
         debounceLog[k + 1][1] = "call"
  /\ (timers = {} /\ debounceLog # <<>>) =>
       debounceLog[Len(debounceLog)][1] = "invoke"

\* Three calls a millisecond apart, and one invocation, with the arguments of
\* the third, three milliseconds after it.
C21_Witness ==
  /\ wait = 3
  /\ debounceLog = <<<<"call", 1, 0>>, <<"call", 2, 1>>, <<"call", 3, 2>>,
                     <<"invoke", 3, 5>>>>
  /\ timers = {}

\* C22: the first call invokes func; a call made less than limit milliseconds
\* after the last invocation is ignored; any two invocations are at least
\* limit milliseconds apart.
C22_ThrottleAtMostOncePerLimit ==
  /\ throttleLog # <<>> => throttleLog[1][1] = "invoke"
  /\ \A j, k \in 1..Len(throttleLog) :
       (j < k /\ throttleLog[j][1] = "invoke" /\ throttleLog[k][3] - throttleLog[j][3] < limit)
         => throttleLog[k][1] = "ignored"

-----------------------------------------------------------------------------
(* Overlapping loads *)

\* The loadProjectMedia calls awaiting their fetch.
PendingLoads == {o \in pending : o.kind = "load"}

\* C31: when the last of several overlapping loadProjectMedia calls settles,
\* all fetches having succeeded, the collection holds the items of the project
\* requested last, whichever fetch resolved first.
C31_LatestRequestedProjectWins ==
  [][(/\ Took("load", "settle") /\ last'.io = "ok"
      /\ latestLoad.io = IF last'.n = latestLoad.n THEN "pending" ELSE "ok"
      /\ {o \in pending' : o.kind = "load"} = {}) =>
       Ids(mediaItems') = {x.id : x \in storage'[latestLoad.project]}]_vars

\* C32: isLoading is true exactly while some loadProjectMedia call is awaiting
\* its fetch: true in every such state, false when every call has settled.
C32_IsLoadingWhileFetching ==
  isLoading <=> PendingLoads # {}

====
